---- MODULE Spec2Model ----
(***************************************************************************)
(* Model of the class/attribute/constraint compiler of the topology        *)
(* pre-processor (topology/pre-process-class.c).                           *)
(*                                                                         *)
(* The state is the pre-processor's class registry (tplg_pp->class_list),  *)
(* the configuration tree handed to tplg_define_classes, the value the     *)
(* call returned and the position of the process (a failed assert()        *)
(* terminates it).  Every C function of the file is an operator of the     *)
(* same name; a loop over the children of a configuration node is a        *)
(* RECURSIVE operator over the index of the child.                         *)
(*                                                                         *)
(* A configuration node (snd_config_t) is the record                       *)
(*     [id, type, str, int, kids]                                          *)
(* with type one of "string", "integer", "compound".  C strings are TLA+   *)
(* strings; Len, SubSeq, Head and Tail take them apart.                    *)
(***************************************************************************)
EXTENDS Integers, Sequences, FiniteSets, TLC

VARIABLES class_list, cfg, ret, pc

vars == <<class_list, cfg, ret, pc>>

(***************************************************************************)
(* Program constants.                                                      *)
(***************************************************************************)
EINVAL == 22
INT_MAX == 2147483647
INT_MIN == -INT_MAX - 1
SNDRV_CTL_ELEM_ID_NAME_MAXLEN == 44

TPLG_CLASS_PARAM_TYPE_ARGUMENT == "argument"
TPLG_CLASS_PARAM_TYPE_ATTRIBUTE == "attribute"

\* The category bits; a mask is the set of the bits that are set.
TPLG_CLASS_ATTRIBUTE_MASK_MANDATORY == "mandatory"
TPLG_CLASS_ATTRIBUTE_MASK_IMMUTABLE == "immutable"
TPLG_CLASS_ATTRIBUTE_MASK_DEPRECATED == "deprecated"
TPLG_CLASS_ATTRIBUTE_MASK_AUTOMATIC == "automatic"
TPLG_CLASS_ATTRIBUTE_MASK_UNIQUE == "unique"
\* int category = 0: no category selected yet.
NoCategory == "none"

(***************************************************************************)
(* long and int.  A long has 64 bits and an int 32: a long is the sequence *)
(* of its four limbs of 16 bits in two's complement, lowest first; an int  *)
(* is an integer of INT_MIN..INT_MAX.                                      *)
(***************************************************************************)
LimbBase == 65536

\* The long with the value of the int v (long value = atoi(s)).
Long(v) ==
    <<v % LimbBase, (v \div LimbBase) % LimbBase,
      IF v < 0 THEN LimbBase - 1 ELSE 0, IF v < 0 THEN LimbBase - 1 ELSE 0>>

\* The int of 32 bits whose high and low halves are hi and lo.
ToInt(hi, lo) ==
    IF hi >= LimbBase \div 2 THEN (hi - LimbBase) * LimbBase + lo
    ELSE hi * LimbBase + lo

\* The assignment of a long to an int field (ref->value = value,
\* c->min = v, c->max = v): the low 32 bits are kept.
Narrow(long) == ToInt(long[2], long[1])

(***************************************************************************)
(* Configuration nodes and the reader's typed scalar access.  The integer  *)
(* of a node is a long.                                                    *)
(***************************************************************************)
StrNode(id, s) == [id |-> id, type |-> "string", str |-> s, int |-> Long(0), kids |-> <<>>]
LongNode(id, long) == [id |-> id, type |-> "integer", str |-> "", int |-> long, kids |-> <<>>]
IntNode(id, v) == LongNode(id, Long(v))
Compound(id, kids) == [id |-> id, type |-> "compound", str |-> "", int |-> Long(0), kids |-> kids]

\* snd_config_get_string / snd_config_get_integer: 0 on a node of the
\* type asked for, -EINVAL on any other.
snd_config_get_string(n) == IF n.type = "string" THEN 0 ELSE -EINVAL
snd_config_get_integer(n) == IF n.type = "integer" THEN 0 ELSE -EINVAL

\* snd_config_for_each(i, next, node): the reader iterates the children of
\* a compound only; on any other node its assert(config->type ==
\* SND_CONFIG_TYPE_COMPOUND) fails and terminates the process.  The
\* predicate says that the iteration starts.
snd_config_for_each(n) == n.type = "compound"

Min(a, b) == IF a < b THEN a ELSE b

\* snd_strlcpy(dst, src, size): at most size - 1 characters of src.
snd_strlcpy(src, size) == SubSeq(src, 1, Min(Len(src), size - 1))

Digits == {"0", "1", "2", "3", "4", "5", "6", "7", "8", "9"}
DigitVal(c) ==
    CASE c = "0" -> 0 [] c = "1" -> 1 [] c = "2" -> 2 [] c = "3" -> 3
      [] c = "4" -> 4 [] c = "5" -> 5 [] c = "6" -> 6 [] c = "7" -> 7
      [] c = "8" -> 8 [] c = "9" -> 9

\* s[0] < '0' || s[0] > '9' (the empty string has s[0] = 0).
FirstIsDigit(s) == Len(s) > 0 /\ Head(s) \in Digits

\* atoi(s) is (int) strtol(s, NULL, 10): white space is skipped, a sign is
\* read, then the leading digits; the characters from the first non-digit
\* on are dropped.  strtol accumulates a long of 64 bits and saturates at
\* LONG_MAX (LONG_MIN for a negative number); the conversion to int keeps
\* the low 32 bits.  The accumulator is the limbs of the magnitude and the
\* flag sat of the saturation.
\* isspace(): the space and \t, \n, \v, \f, \r.
Whitespace == {" ", "\t", "\n", "", "\f", "\r"}

Limb0(l, d) == l[1] * 10 + d
Limb1(l, d) == l[2] * 10 + Limb0(l, d) \div LimbBase
Limb2(l, d) == l[3] * 10 + Limb1(l, d) \div LimbBase
Limb3(l, d) == l[4] * 10 + Limb2(l, d) \div LimbBase

\* acc * 10 + d; a result above LONG_MAX (bit 63 set or a carry out of
\* it) saturates for good.
MulAdd(acc, d) ==
    IF acc.sat \/ Limb3(acc.l, d) >= LimbBase \div 2
    THEN [l |-> acc.l, sat |-> TRUE]
    ELSE [l |-> <<Limb0(acc.l, d) % LimbBase, Limb1(acc.l, d) % LimbBase,
                  Limb2(acc.l, d) % LimbBase, Limb3(acc.l, d)>>,
          sat |-> FALSE]

RECURSIVE atoiFrom(_, _)
atoiFrom(s, acc) ==
    IF Len(s) = 0 \/ Head(s) \notin Digits THEN acc
    ELSE atoiFrom(Tail(s), MulAdd(acc, DigitVal(Head(s))))

RECURSIVE SkipSpace(_)
SkipSpace(s) ==
    IF Len(s) > 0 /\ Head(s) \in Whitespace THEN SkipSpace(Tail(s)) ELSE s

Negative(s) == Len(s) > 0 /\ Head(s) = "-"
SkipSign(s) == IF Len(s) > 0 /\ Head(s) \in {"-", "+"} THEN Tail(s) ELSE s

\* The low 32 bits of the long: LONG_MAX gives -1 and LONG_MIN gives 0.
Truncate(acc, negative) ==
    IF negative
    THEN IF acc.sat THEN 0
         ELSE ToInt((LimbBase - 1 - acc.l[2] + (IF acc.l[1] = 0 THEN 1 ELSE 0)) % LimbBase,
                    (LimbBase - acc.l[1]) % LimbBase)
    ELSE IF acc.sat THEN -1
         ELSE ToInt(acc.l[2], acc.l[1])

atoi(s) ==
    Truncate(atoiFrom(SkipSign(SkipSpace(s)), [l |-> <<0, 0, 0, 0>>, sat |-> FALSE]),
             Negative(SkipSpace(s)))

(***************************************************************************)
(* tplg_class_lookup: index in class_list of the first class whose stored  *)
(* name equals name, 0 for NULL.                                           *)
(***************************************************************************)
tplg_class_lookup(list, name) ==
    IF \E i \in 1..Len(list) : list[i].name = name
    THEN CHOOSE i \in 1..Len(list) :
            /\ list[i].name = name
            /\ \A j \in 1..(i - 1) : list[j].name # name
    ELSE 0

(***************************************************************************)
(* Results.  A parser of an attribute returns [err, aborted, attr]; a      *)
(* parser of a class returns [err, aborted, class]; tplg_define_class(es)  *)
(* return [err, aborted, class_list].  err is the C return value; aborted  *)
(* says that a failed assert() terminated the process, and then the        *)
(* structure is the one at the abort and nothing is returned.              *)
(***************************************************************************)
AttrResult(err, aborted, attr) == [err |-> err, aborted |-> aborted, attr |-> attr]
ClassResult(err, aborted, class) == [err |-> err, aborted |-> aborted, class |-> class]
ListResult(err, aborted, list) == [err |-> err, aborted |-> aborted, class_list |-> list]

(***************************************************************************)
(* tplg_parse_constraint_valid_value_ref (tuple_values): each entry gives  *)
(* an id and a long value (an integer, or a string that starts with a      *)
(* digit, read by atoi); the first reference of value_list with that id    *)
(* has its value, an int, overwritten.  value_list is kept head first.     *)
(***************************************************************************)
FirstRef(value_list, id) ==
    IF \E i \in 1..Len(value_list) : value_list[i].id = id
    THEN CHOOSE i \in 1..Len(value_list) :
            /\ value_list[i].id = id
            /\ \A j \in 1..(i - 1) : value_list[j].id # id
    ELSE 0

SetValue(value_list, k, value) ==
    IF k = 0 THEN value_list
    ELSE [value_list EXCEPT ![k].value = value]

UpdateRef(attr, id, value) ==
    [attr EXCEPT !.value_list = SetValue(@, FirstRef(@, id), Narrow(value))]

RECURSIVE ValueRefLoop(_, _, _)
ValueRefStep(kids, i, n, attr) ==
    IF snd_config_get_string(n) < 0
    THEN IF snd_config_get_integer(n) < 0
         THEN AttrResult(snd_config_get_integer(n), FALSE, attr)
         ELSE ValueRefLoop(kids, i + 1, UpdateRef(attr, n.id, n.int))
    ELSE IF ~FirstIsDigit(n.str)
         THEN AttrResult(-EINVAL, FALSE, attr)
         ELSE ValueRefLoop(kids, i + 1, UpdateRef(attr, n.id, Long(atoi(n.str))))

ValueRefLoop(kids, i, attr) ==
    IF i > Len(kids) THEN AttrResult(0, FALSE, attr)
    ELSE ValueRefStep(kids, i, kids[i], attr)

tplg_parse_constraint_valid_value_ref(node, attr) ==
    IF ~snd_config_for_each(node) THEN AttrResult(0, TRUE, attr)
    ELSE ValueRefLoop(node.kids, 1, attr)

(***************************************************************************)
(* tplg_parse_constraint_valid_values: each entry must be a string; a new  *)
(* reference {id, string, value = -EINVAL} is put at the head of           *)
(* value_list (list_add).                                                  *)
(***************************************************************************)
\* Variant: a string that starts with a digit is stored as its number (C3
\* must tell it from the code).
NewRef_Resolving(n) ==
    [id |-> n.id, string |-> n.str,
     value |-> IF FirstIsDigit(n.str) THEN atoi(n.str) ELSE -EINVAL]

NewRef(n) == [id |-> n.id, string |-> n.str, value |-> -EINVAL]

\* Variant: list_add_tail in place of list_add (C5 must tell it from the
\* code).
ListAdd_AtTail(ref, value_list) == Append(value_list, ref)

ListAdd(ref, value_list) == <<ref>> \o value_list

AddValidValue(attr, n) == [attr EXCEPT !.value_list = ListAdd(NewRef(n), @)]

RECURSIVE ValidValuesLoop(_, _, _)
ValidValuesStep(kids, i, n, attr) ==
    IF snd_config_get_string(n) < 0
    THEN AttrResult(snd_config_get_string(n), FALSE, attr)
    ELSE ValidValuesLoop(kids, i + 1, AddValidValue(attr, n))

ValidValuesLoop(kids, i, attr) ==
    IF i > Len(kids) THEN AttrResult(0, FALSE, attr)
    ELSE ValidValuesStep(kids, i, kids[i], attr)

tplg_parse_constraint_valid_values(node, attr) ==
    IF ~snd_config_for_each(node) THEN AttrResult(0, TRUE, attr)
    ELSE ValidValuesLoop(node.kids, 1, attr)

(***************************************************************************)
(* tplg_parse_class_constraints: min, max, valid_values, tuple_values;     *)
(* any other child is skipped.  A failure is returned at once.             *)
(***************************************************************************)
SetBound(attr, id, v) ==
    IF id = "min" THEN [attr EXCEPT !.min = Narrow(v)]
    ELSE [attr EXCEPT !.max = Narrow(v)]

RECURSIVE ConstraintsLoop(_, _, _)
ConstraintsNext(kids, i, r) ==
    IF r.aborted \/ r.err < 0 THEN r ELSE ConstraintsLoop(kids, i + 1, r.attr)

ConstraintsStep(kids, i, n, attr) ==
    CASE n.id \in {"min", "max"} ->
            IF snd_config_get_integer(n) < 0
            THEN AttrResult(snd_config_get_integer(n), FALSE, attr)
            ELSE ConstraintsLoop(kids, i + 1, SetBound(attr, n.id, n.int))
      [] n.id = "valid_values" ->
            ConstraintsNext(kids, i, tplg_parse_constraint_valid_values(n, attr))
      [] n.id = "tuple_values" ->
            ConstraintsNext(kids, i, tplg_parse_constraint_valid_value_ref(n, attr))
      [] OTHER -> ConstraintsLoop(kids, i + 1, attr)

ConstraintsLoop(kids, i, attr) ==
    IF i > Len(kids) THEN AttrResult(0, FALSE, attr)
    ELSE ConstraintsStep(kids, i, kids[i], attr)

tplg_parse_class_constraints(node, attr) ==
    IF ~snd_config_for_each(node) THEN AttrResult(0, TRUE, attr)
    ELSE ConstraintsLoop(node.kids, 1, attr)

(***************************************************************************)
(* tplg_parse_class_attribute: constraints and token_ref; any failure of   *)
(* the constraints is returned as -EINVAL.                                 *)
(***************************************************************************)
SetTokenRef(attr, s) ==
    [attr EXCEPT !.token_ref = snd_strlcpy(s, SNDRV_CTL_ELEM_ID_NAME_MAXLEN)]

RECURSIVE AttributeLoop(_, _, _)
AttributeNext(kids, i, r) ==
    IF r.aborted THEN r
    ELSE IF r.err < 0 THEN AttrResult(-EINVAL, FALSE, r.attr)
    ELSE AttributeLoop(kids, i + 1, r.attr)

AttributeStep(kids, i, n, attr) ==
    CASE n.id = "constraints" ->
            AttributeNext(kids, i, tplg_parse_class_constraints(n, attr))
      [] n.id = "token_ref" ->
            IF snd_config_get_string(n) < 0
            THEN AttrResult(-EINVAL, FALSE, attr)
            ELSE AttributeLoop(kids, i + 1, SetTokenRef(attr, n.str))
      [] OTHER -> AttributeLoop(kids, i + 1, attr)

AttributeLoop(kids, i, attr) ==
    IF i > Len(kids) THEN AttrResult(0, FALSE, attr)
    ELSE AttributeStep(kids, i, kids[i], attr)

tplg_parse_class_attribute(node, attr) ==
    IF ~snd_config_for_each(node) THEN AttrResult(0, TRUE, attr)
    ELSE AttributeLoop(node.kids, 1, attr)

(***************************************************************************)
(* tplg_parse_class_attributes: one attribute per child of a               *)
(* DefineArgument / DefineAttribute section.  num_args is counted before   *)
(* the attribute's body is parsed; the attribute joins the tail of         *)
(* attribute_list (list_add_tail) only when its body parsed.               *)
(***************************************************************************)
InitAttribute(id, type) ==
    [name |-> snd_strlcpy(id, SNDRV_CTL_ELEM_ID_NAME_MAXLEN),
     param_type |-> type,
     token_ref |-> "",
     min |-> INT_MIN,
     max |-> INT_MAX,
     value_list |-> <<>>,
     mask |-> {}]

ListAddTail(attr, attribute_list) == Append(attribute_list, attr)

AddAttribute(class, attr) == [class EXCEPT !.attribute_list = ListAddTail(attr, @)]

CountArg(class, type) ==
    IF type = TPLG_CLASS_PARAM_TYPE_ARGUMENT
    THEN [class EXCEPT !.num_args = @ + 1]
    ELSE class

RECURSIVE AttributesLoop(_, _, _, _)
AttributesNext(kids, i, class, type, r) ==
    IF r.aborted THEN ClassResult(0, TRUE, class)
    ELSE IF r.err < 0 THEN ClassResult(r.err, FALSE, class)
    ELSE AttributesLoop(kids, i + 1, AddAttribute(class, r.attr), type)

AttributesStep(kids, i, n, class, type) ==
    AttributesNext(kids, i, CountArg(class, type), type,
                   tplg_parse_class_attribute(n, InitAttribute(n.id, type)))

AttributesLoop(kids, i, class, type) ==
    IF i > Len(kids) THEN ClassResult(0, FALSE, class)
    ELSE AttributesStep(kids, i, kids[i], class, type)

tplg_parse_class_attributes(node, class, type) ==
    IF ~snd_config_for_each(node) THEN ClassResult(0, TRUE, class)
    ELSE AttributesLoop(node.kids, 1, class, type)

(***************************************************************************)
(* tplg_get_attribute_by_name: index of the first attribute of the list    *)
(* with that stored name, 0 for NULL.                                      *)
(***************************************************************************)
tplg_get_attribute_by_name(list, name) ==
    IF \E i \in 1..Len(list) : list[i].name = name
    THEN CHOOSE i \in 1..Len(list) :
            /\ list[i].name = name
            /\ \A j \in 1..(i - 1) : list[j].name # name
    ELSE 0

\* Variant: mask = bit in place of mask |= bit (C6 must tell it from the
\* code).
OrMask_Assigning(class, k, bit) ==
    IF k = 0 THEN class
    ELSE [class EXCEPT !.attribute_list[k].mask = {bit}]

\* attr->constraint.mask |= bit on attribute k of the class (k = 0: no
\* attribute was found, nothing is done).
OrMask(class, k, bit) ==
    IF k = 0 THEN class
    ELSE [class EXCEPT !.attribute_list[k].mask = @ \cup {bit}]

ApplyTo(class, name, bit) ==
    OrMask(class, tplg_get_attribute_by_name(class.attribute_list, name), bit)

(***************************************************************************)
(* tplg_parse_class_attribute_category: every child must be a string       *)
(* naming an attribute; the category bit is OR-ed into the mask of the     *)
(* attribute found, a name that is not found is skipped.                   *)
(***************************************************************************)
RECURSIVE CategoryLoop(_, _, _, _)
CategoryStep(kids, i, n, class, category) ==
    IF snd_config_get_string(n) < 0
    THEN ClassResult(-EINVAL, FALSE, class)
    ELSE CategoryLoop(kids, i + 1, ApplyTo(class, n.str, category), category)

CategoryLoop(kids, i, class, category) ==
    IF i > Len(kids) THEN ClassResult(0, FALSE, class)
    ELSE CategoryStep(kids, i, kids[i], class, category)

tplg_parse_class_attribute_category(node, class, category) ==
    IF ~snd_config_for_each(node) THEN ClassResult(0, TRUE, class)
    ELSE CategoryLoop(node.kids, 1, class, category)

(***************************************************************************)
(* tplg_parse_class_attribute_categories.  category is declared outside    *)
(* the loop and is only ever assigned by the four bulk ids, so a child     *)
(* with any other id meets the category the previous children left.        *)
(*                                                                         *)
(* For a `unique' child the result of snd_config_get_string is only        *)
(* asserted: on a child that is not a string assert(err >= 0) fails and    *)
(* terminates the process (the build keeps its assertions: nothing in the  *)
(* sources defines NDEBUG).                                                *)
(***************************************************************************)
SelectCategory(id, category) ==
    CASE id = "mandatory" -> TPLG_CLASS_ATTRIBUTE_MASK_MANDATORY
      [] id = "immutable" -> TPLG_CLASS_ATTRIBUTE_MASK_IMMUTABLE
      [] id = "deprecated" -> TPLG_CLASS_ATTRIBUTE_MASK_DEPRECATED
      [] id = "automatic" -> TPLG_CLASS_ATTRIBUTE_MASK_AUTOMATIC
      [] OTHER -> category

RECURSIVE CategoriesLoop(_, _, _, _)
CategoriesNext(kids, i, category, r) ==
    IF r.aborted \/ r.err < 0 THEN r ELSE CategoriesLoop(kids, i + 1, r.class, category)

CategoriesStep(kids, i, n, class, category) ==
    IF n.id = "unique"
    THEN IF snd_config_get_string(n) < 0
         THEN ClassResult(0, TRUE, class)
         ELSE CategoriesLoop(kids, i + 1,
                ApplyTo(class, n.str, TPLG_CLASS_ATTRIBUTE_MASK_UNIQUE), category)
    ELSE IF category = NoCategory
         THEN CategoriesLoop(kids, i + 1, class, category)
         ELSE CategoriesNext(kids, i, category,
                tplg_parse_class_attribute_category(n, class, category))

CategoriesLoop(kids, i, class, category) ==
    IF i > Len(kids) THEN ClassResult(0, FALSE, class)
    ELSE CategoriesStep(kids, i, kids[i], class, SelectCategory(kids[i].id, category))

tplg_parse_class_attribute_categories(node, class) ==
    IF ~snd_config_for_each(node) THEN ClassResult(0, TRUE, class)
    ELSE CategoriesLoop(node.kids, 1, class, NoCategory)

(***************************************************************************)
(* tplg_define_class: a node whose id is found by tplg_class_lookup is     *)
(* skipped.  Otherwise the class is created with the node's id cut by      *)
(* snd_strlcpy, put at the head of class_list (list_add) and then filled   *)
(* section by section, in the order of the sections.                       *)
(***************************************************************************)
InitClass(id) ==
    [name |-> snd_strlcpy(id, SNDRV_CTL_ELEM_ID_NAME_MAXLEN),
     num_args |-> 0,
     attribute_list |-> <<>>]

ParamType(id) ==
    IF id = "DefineArgument" THEN TPLG_CLASS_PARAM_TYPE_ARGUMENT
    ELSE TPLG_CLASS_PARAM_TYPE_ATTRIBUTE

\* Variant: an error return is not checked (C7 must tell it from the code).
StopAt_AbortOnly(r) == r.aborted

StopAt(r) == r.err < 0 \/ r.aborted

RECURSIVE SectionsLoop(_, _, _)
SectionsNext(kids, i, r) ==
    IF StopAt(r) THEN r ELSE SectionsLoop(kids, i + 1, r.class)

\* Variant: the `attributes' section is not dispatched (C10 must tell it
\* from the code).
SectionsStep_NoCategories(kids, i, n, class) ==
    CASE n.id \in {"DefineArgument", "DefineAttribute"} ->
            SectionsNext(kids, i, tplg_parse_class_attributes(n, class, ParamType(n.id)))
      [] OTHER -> SectionsLoop(kids, i + 1, class)

SectionsStep(kids, i, n, class) ==
    CASE n.id \in {"DefineArgument", "DefineAttribute"} ->
            SectionsNext(kids, i, tplg_parse_class_attributes(n, class, ParamType(n.id)))
      [] n.id = "attributes" ->
            SectionsNext(kids, i, tplg_parse_class_attribute_categories(n, class))
      [] OTHER -> SectionsLoop(kids, i + 1, class)

SectionsLoop(kids, i, class) ==
    IF i > Len(kids) THEN ClassResult(0, FALSE, class)
    ELSE SectionsStep(kids, i, kids[i], class)

\* list_add(&class->list, &tplg_pp->class_list): the class is the new head.
Register(class, list) == <<class>> \o list

Registered(list, r) == ListResult(r.err, r.aborted, Register(r.class, list))

tplg_define_class(list, node) ==
    IF tplg_class_lookup(list, node.id) # 0
    THEN ListResult(0, FALSE, list)
    ELSE IF ~snd_config_for_each(node)
         THEN Registered(list, ClassResult(0, TRUE, InitClass(node.id)))
         ELSE Registered(list, SectionsLoop(node.kids, 1, InitClass(node.id)))

(***************************************************************************)
(* tplg_define_classes: the top-level nodes in order; the first failure    *)
(* is returned.                                                            *)
(***************************************************************************)
RECURSIVE ClassesLoop(_, _, _)
ClassesNext(kids, i, r) ==
    IF StopAt(r) THEN r ELSE ClassesLoop(r.class_list, kids, i + 1)

ClassesLoop(list, kids, i) ==
    IF i > Len(kids) THEN ListResult(0, FALSE, list)
    ELSE ClassesNext(kids, i, tplg_define_class(list, kids[i]))

tplg_define_classes(list, tree) ==
    IF ~snd_config_for_each(tree) THEN ListResult(0, TRUE, list)
    ELSE ClassesLoop(list, tree.kids, 1)

(***************************************************************************)
(* The operations.                                                         *)
(*                                                                         *)
(* Call(tree): the caller hands a configuration tree to                    *)
(* tplg_define_classes.  DefineClasses: the whole call runs; it returns    *)
(* (pc = "idle", ret the value returned) or the process is terminated by   *)
(* the failed assert (pc = "aborted", nothing is returned).                *)
(***************************************************************************)
Tree(kids) == Compound("Class", kids)

EmptyTree == Tree(<<>>)

Return(r) ==
    /\ class_list' = r.class_list
    /\ ret' = IF r.aborted THEN ret ELSE r.err
    /\ pc' = IF r.aborted THEN "aborted" ELSE "idle"

DefineClasses ==
    /\ pc = "called"
    /\ Return(tplg_define_classes(class_list, cfg))
    /\ UNCHANGED cfg

Call(tree) ==
    /\ pc = "idle"
    /\ cfg' = tree
    /\ pc' = "called"
    /\ UNCHANGED <<class_list, ret>>

(***************************************************************************)
(* Building blocks of the configuration trees the specifications draw.     *)
(***************************************************************************)
\* All sequences over S of length at most n.
RECURSIVE SeqsUpTo(_, _)
SeqsUpTo(S, n) ==
    IF n = 0 THEN {<<>>}
    ELSE LET shorter == SeqsUpTo(S, n - 1)
         IN  shorter \cup {Append(q, x) : q \in {t \in shorter : Len(t) = n - 1}, x \in S}

\* The sequences of class nodes whose ids are pairwise different, as the
\* children of one compound are.
DistinctIds(q) == \A i, j \in 1..Len(q) : i # j => q[i].id # q[j].id

\* A list value [s1 s2 ...]: a compound whose children are the strings,
\* with their positions as ids.
Position(i) == CASE i = 1 -> "0" [] i = 2 -> "1" [] i = 3 -> "2" [] i = 4 -> "3" [] OTHER -> "4"
StrList(id, names) == Compound(id, [i \in 1..Len(names) |-> StrNode(Position(i), names[i])])

\* A class name of 44 characters: one more than snd_strlcpy keeps.
LongName == "pipeline_with_a_very_long_class_name_0123456"

(***************************************************************************)
(* Spec: a registry and any sequence of tplg_define_classes calls on it.   *)
(***************************************************************************)
MaxClasses == 3

ClassNames == {"Foo", LongName}

ArgDir ==
    Compound("dir", <<Compound("constraints",
        <<Compound("valid_values", <<StrNode("playback", "playback"),
                                     StrNode("capture", "capture")>>),
          Compound("tuple_values", <<IntNode("playback", 0), IntNode("capture", 1)>>)>>)>>)
AttrRate == Compound("rate", <<Compound("constraints", <<IntNode("min", 8), IntNode("max", 192)>>),
                               StrNode("token_ref", "sof_tkn_dai.word")>>)
AttrBadMin == Compound("depth", <<Compound("constraints", <<StrNode("min", "low")>>)>>)
AttrPlain == Compound("index", <<>>)
\* max 4294967488 (2^32 + 192): more than an int holds.
AttrWide == Compound("period", <<Compound("constraints", <<LongNode("max", <<192, 0, 1, 0>>)>>)>>)

BodyDai == <<Compound("DefineArgument", <<ArgDir>>),
             Compound("DefineAttribute", <<AttrRate>>),
             Compound("attributes", <<StrList("mandatory", <<"dir">>),
                                      StrNode("unique", "rate")>>)>>
BodyPlain == <<Compound("DefineAttribute", <<AttrPlain, AttrWide>>)>>
BodyBad == <<Compound("DefineArgument", <<AttrPlain, AttrBadMin, AttrRate>>),
             Compound("DefineAttribute", <<AttrRate>>)>>
BodyBadUnique == <<Compound("DefineAttribute", <<AttrPlain>>),
                   Compound("attributes", <<IntNode("unique", 5)>>)>>

\* DefineArgument "dir": a section that is a scalar, which the reader
\* cannot iterate.
BodyScalarSection == <<Compound("DefineAttribute", <<AttrPlain>>),
                       StrNode("DefineArgument", "dir")>>

Bodies == {BodyDai, BodyPlain, BodyBad, BodyBadUnique, BodyScalarSection}

ClassNodes == {Compound(name, body) : name \in ClassNames, body \in Bodies}

Trees == {Tree(q) : q \in {t \in SeqsUpTo(ClassNodes, Cardinality(ClassNames)) :
                              Len(t) > 0 /\ DistinctIds(t)}}

Init ==
    /\ class_list = <<>>
    /\ cfg = EmptyTree
    /\ ret = 0
    /\ pc = "idle"

CallDefineClasses ==
    /\ Len(class_list) < MaxClasses
    /\ \E tree \in Trees : Call(tree)

Next == CallDefineClasses \/ DefineClasses

Spec == Init /\ [][Next]_vars

(***************************************************************************)
(* Properties of the registry under sequences of calls (Spec).             *)
(***************************************************************************)
\* The step in which a call of tplg_define_classes runs.
CallRuns == pc = "called" /\ pc' # "called"

\* A class was registered for a top-level node of that name: the registry
\* holds the class that tplg_define_class creates for the name.
RegisteredFor(list, name) ==
    \E i \in 1..Len(list) : list[i].name = InitClass(name).name

FreshNames(list, tree) ==
    {tree.kids[i].id : i \in {j \in 1..Len(tree.kids) : ~RegisteredFor(list, tree.kids[j].id)}}

\* The classes of list are the last Len(list) classes of after, unchanged.
KeptAsIs(list, after) ==
    /\ Len(after) >= Len(list)
    /\ SubSeq(after, Len(after) - Len(list) + 1, Len(after)) = list

\* C1: once a class was registered for a name N, a later top-level node
\* named N (with any body) adds no class, returns success and leaves every
\* registered class exactly as its first definition left it: a call adds at
\* most one class per name that had no class yet, keeps the classes there
\* were, and a call all of whose nodes are re-definitions returns 0 with
\* the registry unchanged.
C1_RedefinitionChangesNothing ==
    [][CallRuns =>
          /\ KeptAsIs(class_list, class_list')
          /\ Len(class_list') - Len(class_list)
                <= Cardinality(FreshNames(class_list, cfg))
          /\ (FreshNames(class_list, cfg) = {}
                => class_list' = class_list /\ ret' = 0 /\ pc' = "idle")]_vars

\* C8: no two registered classes have the same stored name, whatever the
\* length of the names of the top-level nodes.
C8_StoredNamesUnique ==
    \A i, j \in 1..Len(class_list) : i # j => class_list[i].name # class_list[j].name

\* A class node with a `unique' child that is not a string.
UniqueNotString(node) ==
    \E i \in 1..Len(node.kids) :
        /\ node.kids[i].id = "attributes"
        /\ \E j \in 1..Len(node.kids[i].kids) :
              /\ node.kids[i].kids[j].id = "unique"
              /\ node.kids[i].kids[j].type # "string"

\* C9: a call always ends by returning, never by a failed assertion, and
\* a `unique' child whose value is not a string makes the call that meets
\* it return an error.
C9_MalformedScalarIsAnError ==
    [][(CallRuns => pc' = "idle")
       /\ (CallRuns /\ UniqueNotString(cfg.kids[1])
             /\ tplg_class_lookup(class_list, cfg.kids[1].id) = 0
             => pc' = "idle" /\ ret' < 0)]_vars

(***************************************************************************)
(* SpecCategories: one call on an empty registry with one class whose      *)
(* body declares arguments and attributes named a and b (a name may be     *)
(* declared in both sections) and ends with an `attributes' section of     *)
(* one or two children: an optional first child, then a child with a       *)
(* bulk category id or an unknown id and a list of names.                  *)
(***************************************************************************)
MaxListed == 2

AttrNames == {"a", "b"}
ListedNames == {"a", "b", "A", "zz"}
BulkIds == {"mandatory", "immutable", "deprecated", "automatic"}
LastIds == BulkIds \cup {"comment"}

DistinctNames(q) == \A i, j \in 1..Len(q) : i # j => q[i] # q[j]
NameLists == {q \in SeqsUpTo(AttrNames, Cardinality(AttrNames)) : DistinctNames(q)}

Constrained(name) ==
    Compound(name, <<Compound("constraints",
        <<IntNode("min", 1), Compound("valid_values", <<StrNode("on", "enabled")>>)>>)>>)
Declared(names) == [i \in 1..Len(names) |-> Constrained(names[i])]

FirstChildren == {<<>>, <<StrNode("unique", "a")>>, <<StrList("immutable", <<"a">>)>>}

CategoryBodies ==
    {<<Compound("DefineArgument", Declared(args)),
       Compound("DefineAttribute", Declared(attrs)),
       Compound("attributes", first \o <<StrList(id, listed)>>)>> :
        args \in NameLists, attrs \in NameLists, first \in FirstChildren,
        id \in LastIds, listed \in SeqsUpTo(ListedNames, MaxListed)}

CategoryTrees == {Tree(<<Compound("Foo", body)>>) : body \in CategoryBodies}

InitCategories ==
    /\ class_list = <<>>
    /\ cfg \in CategoryTrees
    /\ ret = 0
    /\ pc = "called"

SpecCategories == InitCategories /\ [][DefineClasses]_vars

\* The tree of the call, its (single) class node, the `attributes' section
\* (the last section of the class) and the last child of that section.
TheClassNode == cfg.kids[1]
LastSection == TheClassNode.kids[Len(TheClassNode.kids)]
LastChild == LastSection.kids[Len(LastSection.kids)]
ListedBy(child) == {child.kids[i].str : i \in 1..Len(child.kids)}

\* The same tree without the last child of the `attributes' section, and
\* the class the call builds from it.
ButLast(q) == SubSeq(q, 1, Len(q) - 1)
WithoutLastChild ==
    Tree(<<Compound(TheClassNode.id,
             ButLast(TheClassNode.kids)
               \o <<Compound(LastSection.id, ButLast(LastSection.kids))>>)>>)
ClassBefore == tplg_define_classes(<<>>, WithoutLastChild).class_list[1]

\* The bit of a bulk category id.
BitOf(id) ==
    CASE id = "mandatory" -> TPLG_CLASS_ATTRIBUTE_MASK_MANDATORY
      [] id = "immutable" -> TPLG_CLASS_ATTRIBUTE_MASK_IMMUTABLE
      [] id = "deprecated" -> TPLG_CLASS_ATTRIBUTE_MASK_DEPRECATED
      [] id = "automatic" -> TPLG_CLASS_ATTRIBUTE_MASK_AUTOMATIC

\* The attributes a list of names selects: for each name the first
\* attribute of the sequence with exactly that name.
FirstNamed(attrs, names) ==
    {i \in 1..Len(attrs) :
        /\ attrs[i].name \in names
        /\ \A j \in 1..(i - 1) : attrs[j].name # attrs[i].name}

WithBit(class, selected, bit) ==
    [class EXCEPT !.attribute_list =
        [i \in 1..Len(@) |->
            IF i \in selected THEN [@[i] EXCEPT !.mask = @ \cup {bit}] ELSE @[i]]]

\* C2: a child of the `attributes' section whose id is none of mandatory,
\* immutable, deprecated, automatic, unique changes no mask, whatever
\* children precede it: the class is the one built without that child.
C2_UnknownIdChangesNoMask ==
    pc = "idle" /\ LastChild.id \notin BulkIds \cup {"unique"}
        => ret = 0 /\ class_list = <<ClassBefore>>

\* C6: a bulk category k with the name list L ORs bit k into the mask of
\* the first attribute matching each name of L exactly and changes nothing
\* else: not the other attributes, not the other bits, not num_args, the
\* bounds, the valid values or the attribute sequence; a name that matches
\* no attribute has no effect and is no error.
C6_BulkCategoryFrame ==
    pc = "idle" /\ LastChild.id \in BulkIds
        => /\ ret = 0
           /\ class_list =
                <<WithBit(ClassBefore,
                          FirstNamed(ClassBefore.attribute_list, ListedBy(LastChild)),
                          BitOf(LastChild.id))>>

\* C6 happens: a category was applied to a class that declares a name
\* twice, with a name that matches nothing in the list, on an attribute
\* that already carried another bit, while the second attribute of the
\* same name stayed without the bit.
C6_Witness ==
    /\ pc = "idle" /\ ret = 0
    /\ LastChild.id = "mandatory"
    /\ "zz" \in ListedBy(LastChild)
    /\ Len(class_list) = 1
    /\ \E i, j \in 1..Len(class_list[1].attribute_list) :
          /\ i < j
          /\ class_list[1].attribute_list[i].name = class_list[1].attribute_list[j].name
          /\ class_list[1].attribute_list[i].mask = {"immutable", "mandatory"}
          /\ class_list[1].attribute_list[j].mask = {}

(***************************************************************************)
(* SpecValidValues: one call on an empty registry with one class with one  *)
(* argument whose constraints hold one valid_values block; the entries     *)
(* are strings (a word, digits, a negative number) and integers.           *)
(***************************************************************************)
MaxEntries == 2

ValueIds == {"p", "c"}
ValidScalars == {StrNode("", "playback"), StrNode("", "48000"), StrNode("", "-1"),
                 IntNode("", 7)}
Entry(id, scalar) == [scalar EXCEPT !.id = id]
ValidEntries == {Entry(id, scalar) : id \in ValueIds, scalar \in ValidScalars}

OneArgument(constraints) ==
    Tree(<<Compound("Foo",
             <<Compound("DefineArgument",
                 <<Compound("dir", <<Compound("constraints", constraints)>>)>>)>>)>>)

ValidValueTrees ==
    {OneArgument(<<Compound("valid_values", entries)>>) :
        entries \in SeqsUpTo(ValidEntries, MaxEntries)}

InitValidValues ==
    /\ class_list = <<>>
    /\ cfg \in ValidValueTrees
    /\ ret = 0
    /\ pc = "called"

SpecValidValues == InitValidValues /\ [][DefineClasses]_vars

Reverse(q) == [i \in 1..Len(q) |-> q[Len(q) + 1 - i]]

\* The constraints of the (single) argument of the tree, and the argument
\* as the call left it in the class.
TheConstraints == TheClassNode.kids[1].kids[1].kids[1].kids
TheArgument == class_list[1].attribute_list[1]
ArgumentBuilt ==
    /\ pc = "idle" /\ ret = 0
    /\ Len(class_list) = 1
    /\ Len(class_list[1].attribute_list) = 1

\* What an entry is said to yield when an integer, or a string that
\* starts with a digit, is stored as the resolved number.
ResolvedRef(n) ==
    IF n.type = "integer" THEN [id |-> n.id, value |-> Narrow(n.int)]
    ELSE IF FirstIsDigit(n.str) THEN [id |-> n.id, value |-> atoi(n.str)]
    ELSE [id |-> n.id, value |-> -EINVAL]
IdAndValue(ref) == [id |-> ref.id, value |-> ref.value]

\* C3 as stated: the build succeeds and every entry yields one reference;
\* an integer or a string starting with a digit is stored resolved, any
\* other string is stored as the string, unresolved.
C3_Original ==
    pc = "idle"
        => /\ ArgumentBuilt
           /\ Len(TheArgument.value_list) = Len(TheConstraints[1].kids)
           /\ \A i \in 1..Len(TheConstraints[1].kids) :
                 IdAndValue(Reverse(TheArgument.value_list)[i])
                    = ResolvedRef(TheConstraints[1].kids[i])

\* What the code stores for a string entry.
StoredRef(n) == [id |-> n.id, string |-> n.str, value |-> -EINVAL]
AllStrings(entries) == \A i \in 1..Len(entries) : entries[i].type = "string"

\* C3 (amended): every string entry, whatever its first character, yields
\* one reference holding the string, with the value unresolved (-EINVAL);
\* an entry that is not a string makes the call fail, and the argument is
\* not added to the class.
C3_ValidValuesAreStrings ==
    pc = "idle"
        => IF AllStrings(TheConstraints[1].kids)
           THEN /\ ArgumentBuilt
                /\ Reverse(TheArgument.value_list)
                     = [i \in 1..Len(TheConstraints[1].kids) |->
                           StoredRef(TheConstraints[1].kids[i])]
           ELSE /\ ret = -EINVAL
                /\ Len(class_list) = 1
                /\ class_list[1].attribute_list = <<>>

\* C3 happens: a string of digits was stored as a string, unresolved.
C3_Witness ==
    /\ ArgumentBuilt
    /\ \E i \in 1..Len(TheArgument.value_list) :
          /\ TheArgument.value_list[i].string = "48000"
          /\ TheArgument.value_list[i].value = -EINVAL

(***************************************************************************)
(* SpecConstraints: one call on an empty registry with one class with one  *)
(* argument whose constraints are a valid_values block, a tuple_values     *)
(* block and a second valid_values block, in this order; each block may    *)
(* be empty and an id may occur more than once.  A tuple is an integer,    *)
(* within int or beyond it, or a string that starts with digits.           *)
(***************************************************************************)
MaxTuples == 2

NamedValues == {StrNode("p", "playback"), StrNode("c", "capture")}
TupleIds == {"p", "c"}
TupleInts == {0, 1}
\* 4294967297 (2^32 + 1): an integer that is more than an int holds.
WideTuple == LongNode("p", <<1, 0, 1, 0>>)
TupleEntries == {IntNode(id, v) : id \in TupleIds, v \in TupleInts}
                    \cup {StrNode("p", "12abc"), WideTuple}

ConstraintTrees ==
    {OneArgument(<<Compound("valid_values", before),
                   Compound("tuple_values", tuples),
                   Compound("valid_values", after)>>) :
        before \in SeqsUpTo(NamedValues, MaxEntries),
        tuples \in SeqsUpTo(TupleEntries, MaxTuples),
        after \in SeqsUpTo(NamedValues, MaxEntries)}

InitConstraints ==
    /\ class_list = <<>>
    /\ cfg \in ConstraintTrees
    /\ ret = 0
    /\ pc = "called"

SpecConstraints == InitConstraints /\ [][DefineClasses]_vars

\* The last entry of the tuple_values block with the given id, 0 for none.
LastTuple(tuples, id) ==
    IF \E i \in 1..Len(tuples) : tuples[i].id = id
    THEN CHOOSE i \in 1..Len(tuples) :
            /\ tuples[i].id = id
            /\ \A j \in (i + 1)..Len(tuples) : tuples[j].id # id
    ELSE 0

\* The value a tuple gives, as a long: its integer, or the number its
\* string starts with.
TupleValue(n) == IF n.type = "integer" THEN n.int ELSE Long(atoi(n.str))

\* The value of the i-th valid value declared before the tuple_values
\* block: of the entries with one id, the one declared last is the first
\* in the list, and it takes the value of the last tuple with that id.
ValueAfterTuples(before, tuples, i) ==
    IF /\ LastTuple(tuples, before[i].id) # 0
       /\ \A j \in (i + 1)..Len(before) : before[j].id # before[i].id
    THEN TupleValue(tuples[LastTuple(tuples, before[i].id)])
    ELSE Long(-EINVAL)

ExpectedRefs(before, tuples, after) ==
    Reverse([i \in 1..Len(before) |->
                [id |-> before[i].id, string |-> before[i].str,
                 value |-> ValueAfterTuples(before, tuples, i)]]
            \o [i \in 1..Len(after) |->
                  [id |-> after[i].id, string |-> after[i].str, value |-> Long(-EINVAL)]])

\* The references of a list with their values as longs.
Values(value_list) ==
    [i \in 1..Len(value_list) |->
        [id |-> value_list[i].id, string |-> value_list[i].string,
         value |-> Long(value_list[i].value)]]

\* C4: a tuple_values entry (X, v) sets value := v on the first reference
\* of the list with id X exactly when a valid_values entry X was processed
\* before it, and changes nothing otherwise; the tuple_values block adds
\* no reference and changes no id or string, and a valid_values entry
\* declared after the block stays unresolved.
C4_TuplesResolveEarlierValues ==
    pc = "idle"
        => /\ ArgumentBuilt
           /\ Values(TheArgument.value_list)
                = ExpectedRefs(TheConstraints[1].kids, TheConstraints[2].kids,
                               TheConstraints[3].kids)

(***************************************************************************)
(* SpecOrder: one call on an empty registry with one class whose body is   *)
(* a sequence of DefineArgument and DefineAttribute sections, each with a  *)
(* list of attributes, some of which declare three valid values; or one    *)
(* of the trees of SpecConstraints.                                        *)
(***************************************************************************)
MaxSections == 2
MaxAttrs == 2

OrderAttrs ==
    {Compound("a", <<>>),
     Compound("b", <<Compound("constraints",
        <<Compound("valid_values", <<StrNode("x", "first"), StrNode("y", "second"),
                                     StrNode("z", "third")>>)>>)>>)}
OrderSections ==
    {Compound(id, attrs) : id \in {"DefineArgument", "DefineAttribute"},
                           attrs \in SeqsUpTo(OrderAttrs, MaxAttrs)}
OrderTrees ==
    {Tree(<<Compound("Foo", body)>>) : body \in SeqsUpTo(OrderSections, MaxSections)}

InitOrder ==
    /\ class_list = <<>>
    /\ cfg \in OrderTrees \cup ConstraintTrees
    /\ ret = 0
    /\ pc = "called"

SpecOrder == InitOrder /\ [][DefineClasses]_vars

\* The children, in order, of those nodes of a sequence that have one of
\* the given ids.
RECURSIVE ChildrenOf(_, _)
ChildrenOf(nodes, ids) ==
    IF nodes = <<>> THEN <<>>
    ELSE (IF Head(nodes).id \in ids THEN Head(nodes).kids ELSE <<>>)
            \o ChildrenOf(Tail(nodes), ids)

\* The attributes a class node declares and the valid values an attribute
\* node declares, in the order of their declaration.
DeclaredAttributes(node) == ChildrenOf(node.kids, {"DefineArgument", "DefineAttribute"})
DeclaredValues(node) == ChildrenOf(ChildrenOf(node.kids, {"constraints"}), {"valid_values"})

Ids(q) == [i \in 1..Len(q) |-> q[i].id]
Names(q) == [i \in 1..Len(q) |-> q[i].name]

\* C5: after a successful definition the attribute sequence of the class
\* lists the attributes in the order of their declaration across all the
\* sections, and the valid-value list of each attribute holds its entries
\* in the reverse of the order of their declaration across its blocks.
C5_DeclarationOrder ==
    pc = "idle" /\ ret = 0
        => /\ Len(class_list) = 1
           /\ Names(class_list[1].attribute_list) = Ids(DeclaredAttributes(TheClassNode))
           /\ \A i \in 1..Len(class_list[1].attribute_list) :
                 Ids(class_list[1].attribute_list[i].value_list)
                    = Reverse(Ids(DeclaredValues(DeclaredAttributes(TheClassNode)[i])))

\* C5 happens: a class with attributes from two sections, the second of
\* them with its three valid values in reverse order.
C5_Witness ==
    /\ pc = "idle" /\ ret = 0
    /\ Len(TheClassNode.kids) = 2
    /\ Len(class_list) = 1
    /\ Names(class_list[1].attribute_list) = <<"a", "b">>
    /\ class_list[1].attribute_list[1].param_type = TPLG_CLASS_PARAM_TYPE_ARGUMENT
    /\ class_list[1].attribute_list[2].param_type = TPLG_CLASS_PARAM_TYPE_ATTRIBUTE
    /\ Ids(class_list[1].attribute_list[2].value_list) = <<"z", "y", "x">>

(***************************************************************************)
(* SpecAbort: one call on an empty registry with one or two classes of     *)
(* different names; a class body is a sequence of sections, some of which  *)
(* declare an attribute that does not build: a min that is no integer, a   *)
(* token_ref that is no string, a valid value that is no string; one       *)
(* section declares an attribute that is a scalar, which the reader cannot *)
(* iterate.                                                                *)
(***************************************************************************)
AbortNames == {"Foo", "Bar"}

AttrBadToken ==
    Compound("format", <<Compound("constraints", <<IntNode("max", 3)>>),
                         IntNode("token_ref", 12)>>)
AttrBadValue ==
    Compound("mode", <<Compound("constraints",
        <<Compound("valid_values", <<StrNode("on", "enabled"), IntNode("off", 0)>>)>>)>>)

AbortSections ==
    {Compound("DefineArgument", <<AttrPlain>>),
     Compound("DefineArgument", <<AttrRate, AttrBadMin, AttrPlain>>),
     Compound("DefineAttribute", <<AttrBadValue, AttrPlain>>),
     Compound("DefineAttribute", <<AttrPlain, ArgDir, AttrBadToken>>),
     Compound("DefineAttribute", <<AttrRate, StrNode("gain", "high")>>),
     Compound("attributes", <<StrList("mandatory", <<"index", "rate">>)>>)}

AbortNodes ==
    {Compound(name, body) : name \in AbortNames,
                            body \in SeqsUpTo(AbortSections, MaxSections)}

AbortTrees ==
    {Tree(q) : q \in {t \in SeqsUpTo(AbortNodes, Cardinality(AbortNames)) :
                         Len(t) > 0 /\ DistinctIds(t)}}

InitAbort ==
    /\ class_list = <<>>
    /\ cfg \in AbortTrees
    /\ ret = 0
    /\ pc = "called"

SpecAbort == InitAbort /\ [][DefineClasses]_vars

\* An attribute node that does not build: a scalar of it has the wrong type.
BadEntry(block) ==
    \E i \in 1..Len(block.kids) :
        \/ block.id = "valid_values" /\ block.kids[i].type # "string"
        \/ /\ block.id = "tuple_values"
           /\ block.kids[i].type # "integer"
           /\ ~(block.kids[i].type = "string" /\ FirstIsDigit(block.kids[i].str))
BadConstraint(c) ==
    \/ c.id \in {"min", "max"} /\ c.type # "integer"
    \/ c.id \in {"valid_values", "tuple_values"} /\ BadEntry(c)
Malformed(attrNode) ==
    \E i \in 1..Len(attrNode.kids) :
        \/ attrNode.kids[i].id = "token_ref" /\ attrNode.kids[i].type # "string"
        \/ /\ attrNode.kids[i].id = "constraints"
           /\ \E j \in 1..Len(attrNode.kids[i].kids) :
                 BadConstraint(attrNode.kids[i].kids[j])

\* The first element of a sequence that satisfies P, 0 for none.
First(q, P(_)) ==
    IF \E i \in 1..Len(q) : P(q[i])
    THEN CHOOSE i \in 1..Len(q) : P(q[i]) /\ \A j \in 1..(i - 1) : ~P(q[j])
    ELSE 0

DeclaresMalformed(section) ==
    /\ section.id \in {"DefineArgument", "DefineAttribute"}
    /\ First(section.kids, Malformed) # 0
HasMalformed(node) == First(node.kids, DeclaresMalformed) # 0

\* The class node cut just before its first malformed attribute.
CutSection(section) ==
    Compound(section.id, SubSeq(section.kids, 1, First(section.kids, Malformed) - 1))
CutBefore(node, s) ==
    Compound(node.id, SubSeq(node.kids, 1, s - 1) \o <<CutSection(node.kids[s])>>)
CutNode(node) == CutBefore(node, First(node.kids, DeclaresMalformed))
FailedIsArgument(node) ==
    node.kids[First(node.kids, DeclaresMalformed)].id = "DefineArgument"

\* The registry when the call failed in the k-th top-level node: what a
\* call on the nodes before k and on node k cut before its malformed
\* attribute builds, where a failed argument has already been counted.
CountFailed(list, node) ==
    IF FailedIsArgument(node) THEN [list EXCEPT ![1].num_args = @ + 1] ELSE list
RegistryAtFailure(kids, k) ==
    CountFailed(
        tplg_define_classes(<<>>, Tree(Append(SubSeq(kids, 1, k - 1), CutNode(kids[k]))))
            .class_list,
        kids[k])

\* C7: when an attribute or a constraint does not build, the call returns
\* the error at once: no later section of the class and no later class is
\* processed, and nothing is rolled back: the classes registered before
\* and the class under construction, with the attributes appended before
\* the failing one, are in the registry.  Without such a failure the call
\* returns 0.
C7_FirstFailureAborts ==
    pc = "idle"
        => IF First(cfg.kids, HasMalformed) = 0
           THEN ret = 0 /\ Len(class_list) = Len(cfg.kids)
           ELSE /\ ret = -EINVAL
                /\ class_list = RegistryAtFailure(cfg.kids, First(cfg.kids, HasMalformed))
                /\ Len(class_list) = First(cfg.kids, HasMalformed)

\* C7 happens: the second class failed after its first attribute, in a
\* section followed by another one; both classes are registered.
C7_Witness ==
    /\ pc = "idle" /\ ret < 0
    /\ Len(cfg.kids) = 2
    /\ ~HasMalformed(cfg.kids[1])
    /\ Len(cfg.kids[1].kids) > 0
    /\ cfg.kids[2].kids = <<Compound("DefineArgument", <<AttrRate, AttrBadMin, AttrPlain>>),
                            Compound("attributes",
                                     <<StrList("mandatory", <<"index", "rate">>)>>)>>
    /\ Len(class_list) = 2
    /\ class_list[1].name = cfg.kids[2].id
    /\ Names(class_list[1].attribute_list) = <<"rate">>
    /\ class_list[1].attribute_list[1].mask = {}
    /\ class_list[2].name = cfg.kids[1].id

(***************************************************************************)
(* SpecSections: one call on an empty registry with one class whose body   *)
(* is a sequence of sections in any order: sections that declare a, b or   *)
(* both, and `attributes' sections with one bulk category list.            *)
(***************************************************************************)
Plain(names) == [i \in 1..Len(names) |-> Compound(names[i], <<>>)]

SectionChoices ==
    {Compound("DefineArgument", Plain(<<"a">>)),
     Compound("DefineArgument", Plain(<<"a", "b">>)),
     Compound("DefineAttribute", Plain(<<"b">>)),
     Compound("DefineAttribute", Plain(<<"a">>))}
    \cup {Compound("attributes", <<StrList(id, listed)>>) :
            id \in {"mandatory", "deprecated"},
            listed \in {<<"a">>, <<"b">>, <<"a", "b">>}}

SectionTrees ==
    {Tree(<<Compound("Foo", body)>>) : body \in SeqsUpTo(SectionChoices, MaxSections)}

InitSections ==
    /\ class_list = <<>>
    /\ cfg \in SectionTrees
    /\ ret = 0
    /\ pc = "called"

SpecSections == InitSections /\ [][DefineClasses]_vars

\* Section p of the class node is an `attributes' section with a bulk
\* category list of the given bit that names the given attribute.
Lists(node, p, bit, name) ==
    /\ node.kids[p].id = "attributes"
    /\ \E c \in 1..Len(node.kids[p].kids) :
          /\ node.kids[p].kids[c].id \in BulkIds
          /\ BitOf(node.kids[p].kids[c].id) = bit
          /\ name \in ListedBy(node.kids[p].kids[c])

\* The number of attributes declared by the sections before section p.
DeclaredBefore(node, p) == Len(DeclaredAttributes(Compound(node.id, SubSeq(node.kids, 1, p - 1))))

FirstOfName(attrs, i) == \A j \in 1..(i - 1) : attrs[j].name # attrs[i].name

\* C10 as stated: categories are applied after all the sections that
\* declare attributes: an attribute named by a category list of the class
\* body carries the bit wherever it is declared.
C10_Original ==
    pc = "idle" /\ ret = 0 /\ Len(class_list) = 1
        => \A i \in 1..Len(class_list[1].attribute_list) :
              \A p \in 1..Len(TheClassNode.kids) :
                 \A bit \in BulkIds :
                    /\ FirstOfName(class_list[1].attribute_list, i)
                    /\ Lists(TheClassNode, p, bit, class_list[1].attribute_list[i].name)
                    => bit \in class_list[1].attribute_list[i].mask

\* C10 (amended): an `attributes' section is applied when the walk over
\* the sections reaches it, to the attributes declared by the sections
\* before it: an attribute carries a bit exactly when a category list of
\* that bit names it in an `attributes' section that follows its
\* declaration, and it is the first attribute of that name.
C10_CategoriesInSectionOrder ==
    pc = "idle"
        => /\ ret = 0 /\ Len(class_list) = 1
           /\ \A i \in 1..Len(class_list[1].attribute_list) :
                 \A bit \in BulkIds :
                    bit \in class_list[1].attribute_list[i].mask
                       <=> /\ FirstOfName(class_list[1].attribute_list, i)
                           /\ \E p \in 1..Len(TheClassNode.kids) :
                                 /\ i <= DeclaredBefore(TheClassNode, p)
                                 /\ Lists(TheClassNode, p, bit,
                                          class_list[1].attribute_list[i].name)

\* C10 happens: the `attributes' section names b and precedes the section
\* that declares b; b is built without the bit.
C10_Witness ==
    /\ pc = "idle" /\ ret = 0
    /\ TheClassNode.kids = <<Compound("attributes", <<StrList("mandatory", <<"b">>)>>),
                             Compound("DefineAttribute", Plain(<<"b">>))>>
    /\ Names(class_list[1].attribute_list) = <<"b">>
    /\ class_list[1].attribute_list[1].mask = {}

====
